---- MODULE Spec2Model ----
(***************************************************************************)
(* The blog feature of the coffee-shop site (src/js/blog.js): the like     *)
(* button with its optimistic update and rollback, the comment form with   *)
(* its validation and simulated submission, and the localStorage entries   *)
(* blog_likes and blog_comments behind both.                               *)
(*                                                                         *)
(* A page is one browser tab showing one post.  Every tab of the site      *)
(* shares the same localStorage.  Asynchronous handlers are modelled by    *)
(* the invocations that are suspended at their await: likeCalls,           *)
(* submitCalls and commentLoads.                                           *)
(***************************************************************************)
EXTENDS Integers, Sequences, FiniteSets, TLC

(* ------------------------------ bounds -------------------------------- *)

\* largest like count found in the store when the first page opens
MaxCount == 2
\* most comments stored or awaiting their remote step at any time, and most
\* submission delays that fit into one behaviour
MaxComments == 2
\* most loadComments invocations of one page suspended at the same time
MaxLoads == 2
\* most blanks typed on each side of a form value
MaxPad == 1
\* most characters typed in a field beyond the least length it accepts
MaxExtra == 0
\* largest lateness, in ms, of a timer or of a user action behind the clock
MaxJitter == 0
\* most posts in the collection that getSimilarPosts is given
MaxPosts == 3

(* --------------------------- program constants ------------------------ *)

MinAuthorLen == 2
MinBodyLen == 10
SubmitDelay == 800
CategoryPoints == 10
RecencyPoints == 5
DaysPerPoint == 30
DefaultCount == 3

Posts == {"p1", "p2"}
Pages == {"pg1", "pg2"}
\* the tab of the documented single-control discipline
MainPages == {"pg1"}
NoPost == "none"

(* ------------------------------ values -------------------------------- *)

\* localStorage.getItem: null when the key is absent
Null == <<"null">>
\* a stored string that JSON.parse rejects
Corrupt == <<"corrupt">>
\* JSON.stringify of a mapping
JSONstringify(m) == <<"json", m>>
\* JSON.parse of a stored string; Corrupt makes it throw
ParseThrows(data) == data = Corrupt
JSONparse(data) == data[2]

EmptyMap == [p \in {} |-> 0]

VARIABLES
    localStorage,   \* [blog_likes, blog_comments]: the stored strings
    quotaExceeded,  \* whether localStorage.setItem throws at present
    clock,          \* Date.now() of the latest step that read the clock
    post,           \* page -> the post it renders, NoPost before the render
    likeDom,        \* page -> the like button, the count and the error span
    likeCalls,      \* page -> handleLikeClick invocations awaiting toggleLike
    errorTimers,    \* page -> whether a 3 s timer to hide the like error runs
    commentsDom,    \* page -> the comments list, its count and the form
    commentLoads,   \* page -> number of loadComments invocations suspended
    submitCalls,    \* page -> handleCommentSubmit invocations awaiting submit
    statusTimers,   \* page -> whether a 3 s timer to clear the status runs
    similarArgs,    \* the arguments of the call of getSimilarPosts
    similarPosts    \* what loadSimilarPosts got back from it, once it has

vars == <<localStorage, quotaExceeded, clock, post, likeDom, likeCalls,
          errorTimers, commentsDom, commentLoads, submitCalls, statusTimers,
          similarArgs, similarPosts>>

likeVars == <<likeDom, likeCalls, errorTimers>>
commentVars == <<commentsDom, commentLoads, submitCalls, statusTimers>>
similarVars == <<similarArgs, similarPosts>>

(* ------------------------------ LikeStore ----------------------------- *)

\* mutant: the catch block hands the unreadable string on
LikeStore_getAll_raw ==
    LET data == localStorage.blog_likes IN
    IF data = Null THEN EmptyMap
    ELSE IF ParseThrows(data) THEN data
    ELSE JSONparse(data)

LikeStore_getAll ==
    LET data == localStorage.blog_likes IN
    IF data = Null THEN EmptyMap
    ELSE IF ParseThrows(data) THEN EmptyMap
    ELSE JSONparse(data)

\* mutant: the default record counts the post as liked
DefaultLike_liked == [count |-> 0, liked |-> TRUE]

DefaultLike == [count |-> 0, liked |-> FALSE]

LikeStore_get(postId) ==
    LET likes == LikeStore_getAll IN
    IF postId \in DOMAIN likes THEN likes[postId] ELSE DefaultLike

\* mutant: the mapping that is written holds the one entry only
Assign_alone(m, k, v) == [x \in {k} |-> v]

\* the mapping with postId's entry replaced, every other entry kept
Assign(m, k, v) == [x \in DOMAIN m \cup {k} |-> IF x = k THEN v ELSE m[x]]

\* mutant: save forgets to write the entry
LikeStore_save_dropped(postId, data) == localStorage

\* mutant: a write that fails loses the entry
LikeStore_save_wiped(postId, data) ==
    IF quotaExceeded THEN [localStorage EXCEPT !.blog_likes = Null]
    ELSE [localStorage EXCEPT
            !.blog_likes = JSONstringify(Assign(LikeStore_getAll, postId, data))]

\* mutant: saving a like clears the other entry of the store
LikeStore_save_clearing(postId, data) ==
    IF quotaExceeded THEN localStorage
    ELSE [blog_likes |-> JSONstringify(Assign(LikeStore_getAll, postId, data)),
          blog_comments |-> Null]

\* the value of localStorage after LikeStore.save(postId, data)
LikeStore_save(postId, data) ==
    IF quotaExceeded THEN localStorage
    ELSE [localStorage EXCEPT
            !.blog_likes = JSONstringify(Assign(LikeStore_getAll, postId, data))]

(* --------------------------- like button ------------------------------ *)

formatLikeCount(count) ==
    IF count = 0 THEN <<"Be the first to like this">>
    ELSE IF count = 1 THEN <<"1 like">>
    ELSE <<count, "likes">>

Max(a, b) == IF a >= b THEN a ELSE b

\* mutant: every click is a like
NewLiked_always(wasLiked) == TRUE

NewLiked(wasLiked) == ~wasLiked

\* mutant: an unlike decrements without the floor at 0
NewCount_unclamped(wasLiked, previousCount) ==
    IF NewLiked(wasLiked) THEN previousCount + 1 ELSE previousCount - 1

\* mutant: an unlike leaves the count as it was
NewCount_kept(wasLiked, previousCount) ==
    IF NewLiked(wasLiked) THEN previousCount + 1 ELSE previousCount

\* mutant: every toggle increments
NewCount_increment(wasLiked, previousCount) == previousCount + 1

NewCount(wasLiked, previousCount) ==
    IF NewLiked(wasLiked) THEN previousCount + 1 ELSE Max(0, previousCount - 1)

NetworkError == "Network error. Please try again."

\* the like button as renderBlogPost draws it from the stored record
RenderedLike(likeData) ==
    [updating |-> FALSE, liked |-> likeData.liked,
     countText |-> formatLikeCount(likeData.count),
     errorVisible |-> FALSE, errorText |-> ""]

\* the page before initBlogPost has rendered a post: no like button exists
NoLikeDom == RenderedLike(DefaultLike)

(* ----------------------------- CommentStore --------------------------- *)

CommentStore_getAll ==
    LET data == localStorage.blog_comments IN
    IF data = Null THEN EmptyMap
    ELSE IF ParseThrows(data) THEN EmptyMap
    ELSE JSONparse(data)

CommentStore_get(postId) ==
    LET comments == CommentStore_getAll IN
    IF postId \in DOMAIN comments THEN comments[postId] ELSE <<>>

\* mutant: add puts the new comment in front of the stored ones
CommentStore_add_first(postId, comment) ==
    IF quotaExceeded THEN localStorage
    ELSE [localStorage EXCEPT
            !.blog_comments =
                JSONstringify(Assign(CommentStore_getAll, postId,
                                     <<comment>> \o CommentStore_get(postId)))]

\* mutant: add starts the list of the post afresh
CommentStore_add_replacing(postId, comment) ==
    IF quotaExceeded THEN localStorage
    ELSE [localStorage EXCEPT
            !.blog_comments =
                JSONstringify(Assign(CommentStore_getAll, postId, <<comment>>))]

\* the value of localStorage after CommentStore.add(postId, comment)
CommentStore_add(postId, comment) ==
    IF quotaExceeded THEN localStorage
    ELSE [localStorage EXCEPT
            !.blog_comments =
                JSONstringify(Assign(CommentStore_getAll, postId,
                                     Append(CommentStore_get(postId), comment)))]

(* ----------------------------- CommentsAPI ---------------------------- *)

\* data/comments.json, the read-only remote comments: p2 has no entry
RemoteComments ==
    [p \in {"p1"} |->
        << [id |-> <<"r", 1>>, author |-> <<"A", "n", "a">>,
            timestamp |-> <<"iso", 0>>, body |-> <<"r", "1">>],
           [id |-> <<"r", 2>>, author |-> <<"B", "o">>,
            timestamp |-> <<"iso", 0>>, body |-> <<"r", "2">>] >>]

FailStatuses == {404, 500}

\* mutant: the error names no status
FetchError_plain(status) == <<"Failed to load comments:">>

FetchError(status) == <<"Failed to load comments:", status>>

\* mutant: the local comments come before the remote ones
CommentsAPI_getComments_localFirst(postId) ==
    LET serverComments ==
            IF postId \in DOMAIN RemoteComments THEN RemoteComments[postId]
            ELSE <<>>
        localComments == CommentStore_get(postId)
    IN  localComments \o serverComments

\* what getComments returns when the response is ok
CommentsAPI_getComments(postId) ==
    LET serverComments ==
            IF postId \in DOMAIN RemoteComments THEN RemoteComments[postId]
            ELSE <<>>
        localComments == CommentStore_get(postId)
    IN  serverComments \o localComments

\* mutant: the failure of the remote step carries no message
SubmitError_silent == ""

SubmitError == "Failed to post comment. Please try again."

toISOString(t) == <<"iso", t>>

\* mutant: a record without its time of creation
NewComment_undated(author, body, t) ==
    [id |-> <<"c", t>>, author |-> author, body |-> body]

\* the comment object submitComment builds when the clock reads t
NewComment(author, body, t) ==
    [id |-> <<"c", t>>, author |-> author,
     timestamp |-> toISOString(t), body |-> body]

(* ------------------------------ form values --------------------------- *)

RECURSIVE Rep(_, _)
Rep(ch, n) == IF n = 0 THEN <<>> ELSE <<ch>> \o Rep(ch, n - 1)

\* a field value typed as l blanks, n letters and r blanks
Typed(l, n, r) == Rep(" ", l) \o Rep("x", n) \o Rep(" ", r)

\* the lengths typed into a field that accepts minLen characters: nothing,
\* one character too few, or e characters more than needed
TypedLens(minLen, e) == {0, minLen - 1, minLen + e}

\* what the user types into the name and the comment field before a submit:
\* both values without blanks around them, or both with blanks on both sides
FormInputs ==
    UNION { { <<Typed(pad, na, pad), Typed(pad, nb, pad)>> :
                pad \in {0, MaxPad},
                na \in TypedLens(MinAuthorLen, e), nb \in TypedLens(MinBodyLen, e) } :
            e \in 0..MaxExtra }

RECURSIVE trimStart(_)
trimStart(s) ==
    IF s = <<>> THEN s
    ELSE IF Head(s) = " " THEN trimStart(Tail(s)) ELSE s

RECURSIVE trimEnd(_)
trimEnd(s) ==
    IF s = <<>> THEN s
    ELSE IF s[Len(s)] = " " THEN trimEnd(SubSeq(s, 1, Len(s) - 1)) ELSE s

\* mutant: the field values are used as typed
trim_none(s) == s

trim(s) == trimEnd(trimStart(s))

\* the text handleCommentSubmit puts under the name field, "" when it is valid
AuthorError(author) ==
    IF author = <<>> THEN "Please enter your name"
    ELSE IF Len(author) < MinAuthorLen THEN "Name must be at least 2 characters"
    ELSE ""

\* mutant: a comment of exactly the least length is rejected
BodyError_strict(body) ==
    IF body = <<>> THEN "Please enter a comment"
    ELSE IF Len(body) <= MinBodyLen THEN "Comment must be at least 10 characters"
    ELSE ""

\* the text handleCommentSubmit puts under the comment field
BodyError(body) ==
    IF body = <<>> THEN "Please enter a comment"
    ELSE IF Len(body) < MinBodyLen THEN "Comment must be at least 10 characters"
    ELSE ""

\* mutant: only the name field decides
hasErrors_author(author, body) == AuthorError(author) # ""

hasErrors(author, body) == AuthorError(author) # "" \/ BodyError(body) # ""

(* ----------------------------- comments DOM --------------------------- *)

\* the comments section as renderBlogPost leaves it: a spinner, count "..."
LoadingComments ==
    [view |-> "loading", list |-> <<>>, countText |-> <<"...">>,
     loadError |-> <<>>, submitDisabled |-> FALSE,
     authorValue |-> <<>>, bodyValue |-> <<>>,
     authorError |-> "", bodyError |-> "",
     statusText |-> "", statusClass |-> "form-status"]

\* the comments section after renderComments(comments, ...)
RenderedComments(comments) ==
    [LoadingComments EXCEPT !.view = "loaded", !.list = comments,
                            !.countText = <<"n", Len(comments)>>]

\* the comments section after loadComments caught error
FailedComments(error) ==
    [LoadingComments EXCEPT !.view = "error", !.countText = <<"?">>,
                            !.loadError = error]

\* parseInt(countEl.textContent, 10), NaN replaced by 0
ParsedCount(countText) == IF countText[1] = "n" THEN countText[2] ELSE 0

(* ---------------------------- getSimilarPosts ------------------------- *)

Min(a, b) == IF a <= b THEN a ELSE b

\* the categories of posts, and their publication days: days are numbered
\* from the day of the call, a later day has the larger number
Categories == {"X", "Y"}
Today == 0
DateISOs == {Today - 365, Today - 180, Today - 30, Today, Today + 300}

\* a collection of n posts; the post at place i has the id i
PostsOfLen(n) ==
    {[i \in 1..n |-> [id |-> i, category |-> f[i].category,
                      dateISO |-> f[i].dateISO]] :
        f \in [1..n -> [category : Categories, dateISO : DateISOs]]}

\* the calls of getSimilarPosts: the current post is one of the collection or
\* has an id that none of the collection has; count is <<>> when the
\* argument is omitted
SimilarInputs ==
    [currentPost : {[id |-> r, category |-> "X"] : r \in 1..(MaxPosts + 1)},
     allPosts : UNION {PostsOfLen(n) : n \in 0..MaxPosts},
     count : {<<>>} \cup {<<n>> : n \in 0..(MaxPosts + 1)}]

\* the similar-posts section before loadSimilarPosts has its posts
LoadingSimilar == [loaded |-> FALSE, posts |-> <<>>]
NoCall == [currentPost |-> [id |-> 1, category |-> "X"],
           allPosts |-> <<>>, count |-> <<>>]

\* mutant: the current post stays among the candidates
otherPosts_all(currentPost, allPosts) == allPosts

\* posts.filter(post => post.id !== currentPost.id)
otherPosts(currentPost, allPosts) ==
    SelectSeq(allPosts, LAMBDA other : other.id # currentPost.id)

\* (Date.now() - postDate.getTime()) / (1000 * 60 * 60 * 24)
daysSincePost(other) == Today - other.dateISO

\* mutant: the category of a post earns nothing
score_recency(other, currentPost) ==
    Max(0, RecencyPoints * DaysPerPoint - daysSincePost(other))

\* the score of a post in thirtieths of a point, the unit in which a day of
\* age costs one: 10 points for the category of the current post, and
\* Math.max(0, 5 - daysSincePost / 30) points for recency
score(other, currentPost) ==
    (IF other.category = currentPost.category
     THEN CategoryPoints * DaysPerPoint ELSE 0)
    + Max(0, RecencyPoints * DaysPerPoint - daysSincePost(other))

\* mutant: an item goes before the items that score as much
RECURSIVE insert_before(_, _)
insert_before(sorted, item) ==
    IF sorted = <<>> THEN <<item>>
    ELSE IF Head(sorted).score > item.score
         THEN <<Head(sorted)>> \o insert_before(Tail(sorted), item)
         ELSE <<item>> \o sorted

\* Array.prototype.sort with (a, b) => b.score - a.score: the sort is
\* stable, an item goes behind the items that score as much or more
RECURSIVE insert(_, _)
insert(sorted, item) ==
    IF sorted = <<>> THEN <<item>>
    ELSE IF Head(sorted).score >= item.score
         THEN <<Head(sorted)>> \o insert(Tail(sorted), item)
         ELSE <<item>> \o sorted

RECURSIVE sort(_)
sort(scoredPosts) ==
    IF scoredPosts = <<>> THEN <<>>
    ELSE insert(sort(SubSeq(scoredPosts, 1, Len(scoredPosts) - 1)),
                scoredPosts[Len(scoredPosts)])

\* mutant: the sorted list is returned whole
slice_whole(items, count) == items

\* slice(0, count) for a count that is not negative
slice(items, count) == SubSeq(items, 1, Min(count, Len(items)))

\* the parameter "count = 3"
countOrDefault(count) == IF count = <<>> THEN DefaultCount ELSE count[1]

getSimilarPosts(currentPost, allPosts, count) ==
    LET others == otherPosts(currentPost, allPosts)
        scoredPosts == [i \in 1..Len(others) |->
                          [post |-> others[i],
                           score |-> score(others[i], currentPost)]]
        top == slice(sort(scoredPosts), countOrDefault(count))
    IN  [i \in 1..Len(top) |-> top[i].post]

(* -------------------------------- Init -------------------------------- *)

LikeRecords == [count : 0..MaxCount, liked : BOOLEAN]

\* a blog_likes entry left by earlier visits, by other scripts or by the user
LikeSeeds ==
    {Null, Corrupt} \cup
    UNION { {JSONstringify(m) : m \in [S -> LikeRecords]} : S \in SUBSET Posts }

InitPages ==
    /\ quotaExceeded = FALSE
    /\ clock = 0
    /\ post = [pg \in Pages |-> NoPost]
    /\ likeDom = [pg \in Pages |-> NoLikeDom]
    /\ likeCalls = [pg \in Pages |-> <<>>]
    /\ errorTimers = [pg \in Pages |-> FALSE]
    /\ commentsDom = [pg \in Pages |-> LoadingComments]
    /\ commentLoads = [pg \in Pages |-> 0]
    /\ submitCalls = [pg \in Pages |-> <<>>]
    /\ statusTimers = [pg \in Pages |-> FALSE]

\* getSimilarPosts is not called
NoSimilar ==
    /\ similarArgs = NoCall
    /\ similarPosts = LoadingSimilar

Init ==
    /\ localStorage \in [blog_likes : LikeSeeds, blog_comments : {Null, Corrupt}]
    /\ InitPages
    /\ NoSimilar

\* no like stored; the blog_comments entry absent or unreadable
InitComments ==
    /\ localStorage \in [blog_likes : {Null}, blog_comments : {Null, Corrupt}]
    /\ InitPages
    /\ NoSimilar

\* a browser profile that has never stored a like
InitEmpty ==
    /\ localStorage = [blog_likes |-> Null, blog_comments |-> Null]
    /\ InitPages
    /\ NoSimilar

(* ------------------------------- helpers ------------------------------ *)

RemoveAt(s, i) == SubSeq(s, 1, i - 1) \o SubSeq(s, i + 1, Len(s))

\* the latest completion time a submission started now can be given
Horizon == MaxComments * (SubmitDelay + MaxJitter)

RECURSIVE Total(_, _)
Total(f, S) ==
    IF S = {} THEN 0
    ELSE LET x == CHOOSE y \in S : TRUE IN f[x] + Total(f, S \ {x})

\* the comments in the store and the submissions awaiting their remote step
StoredComments == Total([p \in Posts |-> Len(CommentStore_get(p))], Posts)
PendingSubmits == Total([pg \in Pages |-> Len(submitCalls[pg])], Pages)

\* renderComments and the catch of loadComments replace the form: the
\* elements that suspended submissions hold are no longer in the document
Detach(calls) == [i \in 1..Len(calls) |-> [calls[i] EXCEPT !.detached = TRUE]]

(* ------------------------------ page load ----------------------------- *)

\* initBlogPost -> renderBlogPost(post): draws the like button from the
\* store, starts loadComments.  A tab is reloaded only while none of its
\* handlers is suspended.
Render(pg, p) ==
    /\ likeCalls[pg] = <<>>
    /\ submitCalls[pg] = <<>>
    /\ commentLoads[pg] = 0
    /\ post' = [post EXCEPT ![pg] = p]
    /\ likeDom' = [likeDom EXCEPT ![pg] = RenderedLike(LikeStore_get(p))]
    /\ errorTimers' = [errorTimers EXCEPT ![pg] = FALSE]
    /\ commentsDom' = [commentsDom EXCEPT ![pg] = LoadingComments]
    /\ commentLoads' = [commentLoads EXCEPT ![pg] = 1]
    /\ statusTimers' = [statusTimers EXCEPT ![pg] = FALSE]
    /\ UNCHANGED <<localStorage, quotaExceeded, clock, likeCalls, submitCalls, similarVars>>

(* ---------------------------- handleLikeClick ------------------------- *)

\* mutant: the handler has no re-entrancy guard
ClickIgnored_never(dom) == FALSE

\* the guard "if (button.classList.contains('updating')) return"
ClickIgnored(dom) == dom.updating

\* mutant: the catch block restores the count but not the flag
RollbackData_flag(call) == [count |-> call.previousCount, liked |-> call.newLiked]

\* mutant: the catch block restores the flag but not the count
RollbackData_count(call) == [count |-> call.newCount, liked |-> call.wasLiked]

\* the record the catch block restores
RollbackData(call) == [count |-> call.previousCount, liked |-> call.wasLiked]

\* mutant: the click leaves the error of an earlier failure on screen
OptimisticDom_stale(dom, newLiked, newCount) ==
    [dom EXCEPT !.updating = TRUE, !.liked = newLiked,
                !.countText = formatLikeCount(newCount)]

\* the like button after the optimistic update of the click handler
OptimisticDom(dom, newLiked, newCount) ==
    [dom EXCEPT !.updating = TRUE, !.liked = newLiked,
                !.countText = formatLikeCount(newCount),
                !.errorVisible = FALSE, !.errorText = ""]

\* mutant: the try block leaves the button in its updating state
ConfirmedDom_stuck(dom, call) ==
    [dom EXCEPT !.liked = IF call.newLiked THEN TRUE ELSE @]

\* the like button after the try block that follows the await
ConfirmedDom(dom, call) ==
    [dom EXCEPT !.updating = FALSE,
                !.liked = IF call.newLiked THEN TRUE ELSE @]

\* mutant: the catch block restores the button but not the count beside it
RollbackDom_button(dom, call, message) ==
    [dom EXCEPT !.updating = FALSE, !.liked = call.wasLiked,
                !.errorText = message, !.errorVisible = TRUE]

\* the like button after the catch block
RollbackDom(dom, call, message) ==
    [dom EXCEPT !.updating = FALSE, !.liked = call.wasLiked,
                !.countText = formatLikeCount(call.previousCount),
                !.errorText = message, !.errorVisible = TRUE]

\* a click on the like button: up to the await of LikeAPI.toggleLike
LikeClick(pg) ==
    /\ post[pg] # NoPost
    /\ IF ClickIgnored(likeDom[pg])
       THEN UNCHANGED vars
       ELSE LET postId == post[pg]
                currentData == LikeStore_get(postId)
                wasLiked == currentData.liked
                previousCount == currentData.count
                newLiked == NewLiked(wasLiked)
                newCount == NewCount(wasLiked, previousCount)
            IN  /\ likeDom' = [likeDom EXCEPT ![pg] =
                        OptimisticDom(@, newLiked, newCount)]
                /\ localStorage' =
                        LikeStore_save(postId, [count |-> newCount, liked |-> newLiked])
                /\ likeCalls' = [likeCalls EXCEPT ![pg] =
                        Append(@, [postId |-> postId, wasLiked |-> wasLiked,
                                   previousCount |-> previousCount,
                                   newLiked |-> newLiked, newCount |-> newCount])]
                /\ UNCHANGED <<quotaExceeded, clock, post, errorTimers, commentVars, similarVars>>

\* toggleLike resolved: the try block after the await
LikeSuccess(pg) ==
    \E i \in 1..Len(likeCalls[pg]) :
        LET call == likeCalls[pg][i] IN
        /\ likeCalls' = [likeCalls EXCEPT ![pg] = RemoveAt(@, i)]
        /\ likeDom' = [likeDom EXCEPT ![pg] = ConfirmedDom(@, call)]
        /\ UNCHANGED <<localStorage, quotaExceeded, clock, post, errorTimers,
                       commentVars, similarVars>>

\* toggleLike threw (Math.random() < failureRate): the catch block
LikeFailure(pg) ==
    \E i \in 1..Len(likeCalls[pg]) :
        LET call == likeCalls[pg][i] IN
        /\ likeCalls' = [likeCalls EXCEPT ![pg] = RemoveAt(@, i)]
        /\ likeDom' = [likeDom EXCEPT ![pg] = RollbackDom(@, call, NetworkError)]
        /\ localStorage' = LikeStore_save(call.postId, RollbackData(call))
        /\ errorTimers' = [errorTimers EXCEPT ![pg] = TRUE]
        /\ UNCHANGED <<quotaExceeded, clock, post, commentVars, similarVars>>

\* a 3 s timer of an earlier failure fires; others may still be running
HideLikeError(pg) ==
    /\ errorTimers[pg]
    /\ likeDom' = [likeDom EXCEPT ![pg].errorVisible = FALSE]
    /\ \E more \in BOOLEAN : errorTimers' = [errorTimers EXCEPT ![pg] = more]
    /\ UNCHANGED <<localStorage, quotaExceeded, clock, post, likeCalls, commentVars, similarVars>>

(* ----------------------------- loadComments --------------------------- *)

\* the fetch of comments.json answered ok: renderComments
LoadCommentsOk(pg) ==
    /\ commentLoads[pg] > 0
    /\ commentLoads' = [commentLoads EXCEPT ![pg] = @ - 1]
    /\ commentsDom' = [commentsDom EXCEPT ![pg] =
            RenderedComments(CommentsAPI_getComments(post[pg]))]
    /\ submitCalls' = [submitCalls EXCEPT ![pg] = Detach(@)]
    /\ statusTimers' = [statusTimers EXCEPT ![pg] = FALSE]
    /\ UNCHANGED <<localStorage, quotaExceeded, clock, post, likeVars, similarVars>>

\* the fetch answered with a non-success status: the catch of loadComments
LoadCommentsFail(pg, status) ==
    /\ commentLoads[pg] > 0
    /\ commentLoads' = [commentLoads EXCEPT ![pg] = @ - 1]
    /\ commentsDom' = [commentsDom EXCEPT ![pg] = FailedComments(FetchError(status))]
    /\ submitCalls' = [submitCalls EXCEPT ![pg] = Detach(@)]
    /\ statusTimers' = [statusTimers EXCEPT ![pg] = FALSE]
    /\ UNCHANGED <<localStorage, quotaExceeded, clock, post, likeVars, similarVars>>

\* a click on "Try Again": loadComments(postId) once more
RetryLoad(pg) ==
    /\ commentsDom[pg].view = "error"
    /\ commentLoads[pg] < MaxLoads
    /\ commentLoads' = [commentLoads EXCEPT ![pg] = @ + 1]
    /\ UNCHANGED <<localStorage, quotaExceeded, clock, post, likeVars,
                   commentsDom, submitCalls, statusTimers, similarVars>>

(* -------------------------- handleCommentSubmit ----------------------- *)

\* the guard "if (submitBtn.disabled) return"
SubmitIgnored(dom) == dom.submitDisabled

\* the handler past its guard, once the two fields hold the given values: up to
\* the return after validation or to the await of CommentsAPI.submitComment
SubmitValues(pg, authorValue, bodyValue) ==
    LET author == trim(authorValue)
        body == trim(bodyValue)
        cleared == [commentsDom[pg] EXCEPT
                        !.authorValue = authorValue,
                        !.bodyValue = bodyValue,
                        !.authorError = AuthorError(author),
                        !.bodyError = BodyError(body),
                        !.statusText = "",
                        !.statusClass = "form-status"]
    IN  IF hasErrors(author, body)
        THEN /\ commentsDom' = [commentsDom EXCEPT ![pg] = cleared]
             /\ UNCHANGED <<localStorage, quotaExceeded, clock, post,
                            likeVars, commentLoads, submitCalls, statusTimers, similarVars>>
        ELSE /\ clock + SubmitDelay + MaxJitter <= Horizon
             /\ StoredComments + PendingSubmits < MaxComments
             /\ commentsDom' = [commentsDom EXCEPT ![pg] =
                    [cleared EXCEPT
                        !.submitDisabled = TRUE,
                        !.statusText = "Submitting your comment..."]]
             /\ submitCalls' = [submitCalls EXCEPT ![pg] =
                    Append(@, [postId |-> post[pg], author |-> author,
                               body |-> body, due |-> clock + SubmitDelay,
                               detached |-> FALSE])]
             /\ UNCHANGED <<localStorage, quotaExceeded, clock, post,
                            likeVars, commentLoads, statusTimers, similarVars>>

\* a submit event of the comment form, whatever the fields hold
CommentSubmit(pg) ==
    /\ commentsDom[pg].view = "loaded"
    /\ IF SubmitIgnored(commentsDom[pg])
       THEN UNCHANGED vars
       ELSE \E input \in FormInputs : SubmitValues(pg, input[1], input[2])

\* the shortest name and comment that pass validation, typed without blanks
ValidInputs == {<<Typed(0, MinAuthorLen, 0), Typed(0, MinBodyLen, 0)>>}

\* a submit event of the comment form once a valid name and comment are typed
PostComment(pg) ==
    /\ commentsDom[pg].view = "loaded"
    /\ IF SubmitIgnored(commentsDom[pg])
       THEN UNCHANGED vars
       ELSE \E input \in ValidInputs : SubmitValues(pg, input[1], input[2])

\* submitComment resolved: the store gets the comment, then the try block
\* after the await and the finally block run
SubmitSuccess(pg) ==
    \E i \in 1..Len(submitCalls[pg]), d \in 0..MaxJitter :
        LET call == submitCalls[pg][i]
            t == Max(clock, call.due) + d
            comment == NewComment(call.author, call.body, t)
            dom == commentsDom[pg]
            \* appendComment throws when the document has no comment form
            appended == dom.view = "loaded"
            shown == IF appended
                     THEN [dom EXCEPT
                            !.list = Append(@, comment),
                            !.countText = <<"n", ParsedCount(dom.countText) + 1>>]
                     ELSE dom
        IN  /\ clock' = t
            /\ localStorage' = CommentStore_add(call.postId, comment)
            /\ submitCalls' = [submitCalls EXCEPT ![pg] = RemoveAt(@, i)]
            /\ commentsDom' = [commentsDom EXCEPT ![pg] =
                    IF call.detached THEN shown
                    ELSE [shown EXCEPT
                            !.authorValue = <<>>,
                            !.bodyValue = <<>>,
                            !.statusText = "Comment posted successfully!",
                            !.statusClass = "form-status success",
                            !.submitDisabled = FALSE]]
            /\ statusTimers' = [statusTimers EXCEPT ![pg] =
                    IF call.detached THEN @ ELSE TRUE]
            /\ UNCHANGED <<quotaExceeded, post, likeVars, commentLoads, similarVars>>

\* submitComment threw (Math.random() < failureRate): catch and finally
SubmitFailure(pg) ==
    \E i \in 1..Len(submitCalls[pg]), d \in 0..MaxJitter :
        LET call == submitCalls[pg][i]
            t == Max(clock, call.due) + d
        IN  /\ clock' = t
            /\ submitCalls' = [submitCalls EXCEPT ![pg] = RemoveAt(@, i)]
            /\ commentsDom' = [commentsDom EXCEPT ![pg] =
                    IF call.detached THEN @
                    ELSE [@ EXCEPT !.statusText = SubmitError,
                                   !.statusClass = "form-status error",
                                   !.submitDisabled = FALSE]]
            /\ UNCHANGED <<localStorage, quotaExceeded, post, likeVars,
                           commentLoads, statusTimers, similarVars>>

\* a 3 s timer of an earlier successful submission fires
ClearStatus(pg) ==
    /\ statusTimers[pg]
    /\ commentsDom' = [commentsDom EXCEPT ![pg].statusText = "",
                                          ![pg].statusClass = "form-status"]
    /\ \E more \in BOOLEAN : statusTimers' = [statusTimers EXCEPT ![pg] = more]
    /\ UNCHANGED <<localStorage, quotaExceeded, clock, post, likeVars,
                   commentLoads, submitCalls, similarVars>>

(* ---------------------------- loadSimilarPosts ------------------------ *)

\* the call of getSimilarPosts returns
GetSimilarPosts ==
    /\ ~similarPosts.loaded
    /\ similarPosts' =
          [loaded |-> TRUE,
           posts |-> getSimilarPosts(similarArgs.currentPost,
                                     similarArgs.allPosts, similarArgs.count)]
    /\ UNCHANGED <<localStorage, quotaExceeded, clock, post, likeVars,
                   commentVars, similarArgs>>

(* ------------------------------ environment --------------------------- *)

\* the origin's storage fills up or is freed: setItem starts or stops throwing
QuotaChange ==
    /\ quotaExceeded' = ~quotaExceeded
    /\ UNCHANGED <<localStorage, clock, post, likeVars, commentVars, similarVars>>

(* --------------------------- specifications --------------------------- *)

\* page load with the comments it fetches
LoadNext(pg) ==
    \/ \E p \in Posts : Render(pg, p)
    \/ LoadCommentsOk(pg)
    \/ \E status \in FailStatuses : LoadCommentsFail(pg, status)
    \/ RetryLoad(pg)

\* the like button
LikeNext(pg) ==
    \/ LikeClick(pg)
    \/ LikeSuccess(pg)
    \/ LikeFailure(pg)
    \/ HideLikeError(pg)

\* the comment form
CommentNext(pg) ==
    \/ CommentSubmit(pg)
    \/ SubmitSuccess(pg)
    \/ SubmitFailure(pg)
    \/ ClearStatus(pg)

PageNext(pg) == LoadNext(pg) \/ LikeNext(pg) \/ CommentNext(pg)

\* one tab, store writes succeed
Next == \E pg \in MainPages : PageNext(pg)
Spec == Init /\ [][Next]_vars

\* the like button of one tab, over every stored blog_likes entry
NextLike == \E pg \in MainPages : LoadNext(pg) \/ LikeNext(pg)
SpecLike == Init /\ [][NextLike]_vars

\* the comment form of one tab whose comments load
NextForm ==
    \E pg \in MainPages :
        \/ \E p \in Posts : Render(pg, p)
        \/ LoadCommentsOk(pg)
        \/ CommentNext(pg)
SpecForm == InitComments /\ [][NextForm]_vars

\* the comment form with valid comments only
PostNext(pg) ==
    \/ PostComment(pg)
    \/ SubmitSuccess(pg)
    \/ SubmitFailure(pg)
    \/ ClearStatus(pg)

\* the comments section of one tab: loads that fail and are retried, and
\* valid comments posted
NextComments == \E pg \in MainPages : LoadNext(pg) \/ PostNext(pg)
SpecComments == InitComments /\ [][NextComments]_vars

\* each of the two entries absent or unreadable when the first page opens
InitStores ==
    /\ localStorage \in [blog_likes : {Null, Corrupt}, blog_comments : {Null, Corrupt}]
    /\ InitPages
    /\ NoSimilar

\* the like button and the comment form of one tab, side by side
NextStores ==
    \E pg \in MainPages :
        \/ \E p \in Posts : Render(pg, p)
        \/ LoadCommentsOk(pg)
        \/ LikeNext(pg)
        \/ PostNext(pg)
SpecStores == InitStores /\ [][NextStores]_vars

\* one tab while the storage quota comes and goes
NextQuota == QuotaChange \/ NextStores
SpecQuota == InitEmpty /\ [][NextQuota]_vars

\* the comment forms of two tabs over the same localStorage
NextTabs ==
    \E pg \in Pages :
        \/ \E p \in Posts : Render(pg, p)
        \/ LoadCommentsOk(pg)
        \/ PostNext(pg)
SpecTabs == InitComments /\ [][NextTabs]_vars

\* the like buttons of two tabs over the same localStorage, from a profile
\* that has never stored a like
NextLikeTabs ==
    \E pg \in Pages :
        \/ \E p \in Posts : Render(pg, p)
        \/ LoadCommentsOk(pg)
        \/ LikeNext(pg)
SpecLikeTabs == InitEmpty /\ [][NextLikeTabs]_vars

\* the like buttons of two tabs when the remote step of every toggle fails
NextRace ==
    \E pg \in Pages :
        \/ \E p \in Posts : Render(pg, p)
        \/ LikeClick(pg)
        \/ LikeFailure(pg)
        \/ HideLikeError(pg)
SpecRace == InitEmpty /\ [][NextRace]_vars

\* the like buttons of two tabs whose pages stay open: the 500 ms timer of a
\* toggle in flight fires, and toggleLike then resolves or throws
FairLike ==
    \A pg \in Pages : WF_vars(LikeSuccess(pg) \/ LikeFailure(pg))
SpecLikeLive == InitEmpty /\ [][NextLikeTabs]_vars /\ FairLike

\* getSimilarPosts over every call within the bounds
InitRank ==
    /\ localStorage = [blog_likes |-> Null, blog_comments |-> Null]
    /\ InitPages
    /\ similarArgs \in SimilarInputs
    /\ similarPosts = LoadingSimilar
NextRank == GetSimilarPosts
SpecRank == InitRank /\ [][NextRank]_vars

(* ================================ claims ============================== *)

\* the persisted record of a post and what a page shows of it
Persisted(p) == LikeStore_get(p)
Shows(pg, r) ==
    /\ likeDom[pg].liked = r.liked
    /\ likeDom[pg].countText = formatLikeCount(r.count)
ShowsNext(pg, r) ==
    /\ likeDom'[pg].liked = r.liked
    /\ likeDom'[pg].countText = formatLikeCount(r.count)

\* the record R a suspended toggle read when it started
ReadAtStart(call) == [count |-> call.previousCount, liked |-> call.wasLiked]

\* the target of a toggle that read r, as the specification states it
Target(r) ==
    [count |-> IF r.liked THEN (IF r.count - 1 > 0 THEN r.count - 1 ELSE 0)
               ELSE r.count + 1,
     liked |-> ~r.liked]

\* this step is a click that starts a toggle on page pg
ClickStarts(pg) == Len(likeCalls'[pg]) = Len(likeCalls[pg]) + 1

\* C1: a toggle keeps the record R it read at its start until it completes,
\* and when its remote step fails, the persisted record of its post and the
\* displayed state are R again, count and liked both.
C1_RollbackRestoresR ==
    [][\A pg \in Pages :
        /\ ClickStarts(pg) =>
              ReadAtStart(likeCalls'[pg][Len(likeCalls'[pg])]) = Persisted(post[pg])
        /\ LikeFailure(pg) =>
              /\ likeCalls[pg] # <<>>
              /\ Persisted(post[pg])' = ReadAtStart(likeCalls[pg][1])
              /\ ShowsNext(pg, ReadAtStart(likeCalls[pg][1]))]_vars

\* a failed unlike has been rolled back: the post is liked again
C1_Witness ==
    \E pg \in Pages :
        /\ likeCalls[pg] = <<>>
        /\ likeDom[pg].errorVisible
        /\ likeDom[pg].liked
        /\ post[pg] # NoPost
        /\ Persisted(post[pg]).liked

\* C2: while the remote step of a toggle is pending, the persisted record
\* of its post and the displayed state are the target, not the record read.
C2_OptimisticBeforeRemote ==
    \A pg \in Pages :
        \A i \in 1..Len(likeCalls[pg]) :
            LET call == likeCalls[pg][i] IN
            /\ Persisted(call.postId) = Target(ReadAtStart(call))
            /\ Persisted(call.postId) # ReadAtStart(call)
            /\ Shows(pg, Target(ReadAtStart(call)))
            /\ likeDom[pg].updating

\* an unlike is pending on a post that was stored as {2, liked}
C2_Witness ==
    \E pg \in Pages :
        /\ likeCalls[pg] # <<>>
        /\ likeCalls[pg][1].wasLiked
        /\ likeCalls[pg][1].previousCount = 2
        /\ Persisted(post[pg]) = [count |-> 1, liked |-> FALSE]

\* the persisted record after a second successful toggle, which starts from
\* the record r the first one left (success writes nothing)
Toggled(r) == [count |-> NewCount(r.liked, r.count), liked |-> NewLiked(r.liked)]

\* C3 as stated: for every record with count >= 0, the toggle after this one
\* brings count and liked back to their values before this one.
C3_TwoTogglesRestoreAny ==
    [][\A pg \in Pages :
        (ClickStarts(pg) /\ Persisted(post[pg]).count >= 0) =>
            Toggled(Persisted(post[pg])') = Persisted(post[pg])]_vars

\* C3 amended: for every record with count >= 0 that is not {0, liked}, two
\* consecutive successful toggles bring count and liked back.
C3_TwoTogglesRestore ==
    [][\A pg \in Pages :
        (/\ ClickStarts(pg)
         /\ Persisted(post[pg]).count >= 0
         /\ ~(Persisted(post[pg]).liked /\ Persisted(post[pg]).count = 0)) =>
            Toggled(Persisted(post[pg])') = Persisted(post[pg])]_vars

\* a like of a post stored as {1, not liked} is pending; the next toggle
\* will find {2, liked}
C3_Witness ==
    \E pg \in Pages :
        /\ likeCalls[pg] # <<>>
        /\ ReadAtStart(likeCalls[pg][1]) = [count |-> 1, liked |-> FALSE]
        /\ Persisted(post[pg]) = [count |-> 2, liked |-> TRUE]

\* C4: a toggle whose remote step succeeds writes nothing more and leaves the
\* persisted record at the target of the record it read; a page at rest shows
\* the persisted record, and a render reads exactly it.
C4_SuccessKeepsTarget ==
    [][\A pg \in Pages :
        /\ LikeSuccess(pg) =>
              /\ localStorage' = localStorage
              /\ likeCalls[pg] # <<>>
              /\ Persisted(post[pg])' = Target(ReadAtStart(likeCalls[pg][1]))
              /\ ShowsNext(pg, Target(ReadAtStart(likeCalls[pg][1])))
        /\ \A p \in Posts : Render(pg, p) => ShowsNext(pg, Persisted(p))]_vars

\* a confirmed like of a post stored as {2, not liked}, after the render
C4_Witness ==
    \E pg \in Pages :
        /\ likeCalls[pg] = <<>>
        /\ ~likeDom[pg].updating
        /\ post[pg] # NoPost
        /\ Persisted(post[pg]) = [count |-> 3, liked |-> TRUE]
        /\ Shows(pg, [count |-> 3, liked |-> TRUE])

\* the stored blog_likes entry has nothing for post p
NoEntry(p) ==
    \/ localStorage.blog_likes \in {Null, Corrupt}
    \/ p \notin DOMAIN localStorage.blog_likes[2]

\* C5: a post with no entry in the like store reads as {count: 0, liked:
\* false}.
C5_DefaultLike ==
    \A p \in Posts : NoEntry(p) => LikeStore_get(p) = [count |-> 0, liked |-> FALSE]

\* a page has rendered a post that the stored mapping has no entry for,
\* beside an entry of the other post
C5_Witness ==
    \E pg \in Pages :
        /\ post[pg] # NoPost
        /\ NoEntry(post[pg])
        /\ localStorage.blog_likes \notin {Null, Corrupt}
        /\ DOMAIN localStorage.blog_likes[2] # {}
        /\ Shows(pg, [count |-> 0, liked |-> FALSE])
        /\ commentsDom[pg].view = "loaded"

\* C6: every persisted like record has count >= 0.
C6_CountNonNegative ==
    \A p \in DOMAIN LikeStore_getAll : LikeStore_getAll[p].count >= 0

\* an unlike of a post stored as {0, liked} has been written, and a failure
\* has been rolled back before
C6_Witness ==
    \E pg \in Pages :
        /\ likeCalls[pg] # <<>>
        /\ ReadAtStart(likeCalls[pg][1]) = [count |-> 0, liked |-> TRUE]
        /\ Persisted(post[pg]).count = 0
        /\ errorTimers[pg]

\* C7: a like control has at most one toggle in flight, and a click that
\* arrives while one is pending changes nothing at all.
C7_OneToggleInFlight ==
    [][\A pg \in Pages :
        /\ Len(likeCalls'[pg]) <= 1
        /\ (likeCalls[pg] # <<>> /\ LikeClick(pg)) => UNCHANGED vars]_vars

\* a toggle is pending and its control is marked as updating
C7_Witness ==
    \E pg \in Pages : Len(likeCalls[pg]) = 1 /\ likeDom[pg].updating

\* C8: after a toggle whose remote step fails the error indicator is visible
\* with the failure's message; after one whose remote step succeeds no error
\* indicator is visible.
C8_FailureSurfaced ==
    [][\A pg \in Pages :
        /\ LikeFailure(pg) =>
              likeDom'[pg].errorVisible /\ likeDom'[pg].errorText = NetworkError
        /\ LikeSuccess(pg) =>
              ~likeDom'[pg].errorVisible /\ likeDom'[pg].errorText = ""]_vars

\* a toggle succeeded after an earlier one failed: the error is gone while
\* the timer of the failure still runs
C8_Witness ==
    \E pg \in Pages :
        /\ likeCalls[pg] = <<>>
        /\ errorTimers[pg]
        /\ ~likeDom[pg].errorVisible
        /\ likeDom[pg].errorText = ""
        /\ post[pg] # NoPost

\* the number of characters of a typed value that are not blanks: its
\* length once the blanks at both ends are gone
Letters(value) == Cardinality({i \in DOMAIN value : value[i] # " "})

\* this step is the submit handler of page pg running past its guard on the
\* values the fields hold afterwards
HandlerStep(pg) ==
    /\ commentsDom[pg].view = "loaded"
    /\ ~commentsDom[pg].submitDisabled
    /\ SubmitValues(pg, commentsDom'[pg].authorValue, commentsDom'[pg].bodyValue)

\* this step starts the remote-submit step on page pg
SubmitStarts(pg) == Len(submitCalls'[pg]) = Len(submitCalls[pg]) + 1

\* C9: a submission passes validation (its remote step starts and no field
\* error is shown) if and only if the name has at least 2 characters and the
\* comment at least 10, blanks at both ends not counted.
C9_ValidationThresholds ==
    [][\A pg \in Pages :
        HandlerStep(pg) =>
            LET na == Letters(commentsDom'[pg].authorValue)
                nb == Letters(commentsDom'[pg].bodyValue)
            IN  /\ SubmitStarts(pg) <=> (na >= 2 /\ nb >= 10)
                /\ SubmitStarts(pg) <=>
                      (commentsDom'[pg].authorError = "" /\
                       commentsDom'[pg].bodyError = "")]_vars

\* a submission typed with blanks around a name of 2 and a comment of 10
\* characters is awaiting its remote step
C9_Witness ==
    \E pg \in Pages :
        /\ submitCalls[pg] # <<>>
        /\ Len(submitCalls[pg][1].author) = 2
        /\ Len(submitCalls[pg][1].body) = 10
        /\ Len(commentsDom[pg].authorValue) > 2
        /\ commentsDom[pg].submitDisabled

\* C10: a submission that fails validation starts no remote step and leaves
\* the store unchanged; it is reported under the fields, and the status line,
\* where remote errors go, stays empty.
C10_InvalidShortCircuits ==
    [][\A pg \in Pages :
        HandlerStep(pg) =>
            LET na == Letters(commentsDom'[pg].authorValue)
                nb == Letters(commentsDom'[pg].bodyValue)
            IN  (na < 2 \/ nb < 10) =>
                    /\ submitCalls' = submitCalls
                    /\ localStorage' = localStorage
                    /\ ~commentsDom'[pg].submitDisabled
                    /\ (na < 2) <=> (commentsDom'[pg].authorError # "")
                    /\ (nb < 10) <=> (commentsDom'[pg].bodyError # "")
                    /\ commentsDom'[pg].statusText = ""
                    /\ commentsDom'[pg].statusClass = "form-status"]_vars

\* a comment one character short was rejected under its field although a
\* comment is stored already; nothing is in flight
C10_Witness ==
    \E pg \in Pages :
        /\ commentsDom[pg].view = "loaded"
        /\ Letters(commentsDom[pg].bodyValue) = 9
        /\ commentsDom[pg].bodyError = "Comment must be at least 10 characters"
        /\ commentsDom[pg].authorError = ""
        /\ submitCalls[pg] = <<>>
        /\ CommentStore_get(post[pg]) # <<>>

\* the stored comment list of a post as the blog_comments entry holds it
StoredList(p) ==
    LET data == localStorage.blog_comments IN
    IF data[1] = "json" /\ p \in DOMAIN data[2] THEN data[2][p] ELSE <<>>

\* the remote comments of a post as data/comments.json lists them
Remote(p) == IF p \in DOMAIN RemoteComments THEN RemoteComments[p] ELSE <<>>

StoredPlaces == {<<p, i>> : p \in Posts, i \in 1..MaxComments} \cap
                UNION {{<<p, i>> : i \in DOMAIN StoredList(p)} : p \in Posts}

\* C13: the ids of the comment records that successful submissions returned
\* and stored are pairwise distinct, whatever the posts.
C13_IdsDistinct ==
    \A x, y \in StoredPlaces :
        x # y => StoredList(x[1])[x[2]].id # StoredList(y[1])[y[2]].id

\* C14: a fetch of a post that answers ok shows the remote comments of the
\* post followed by its stored comments, each part in its own order: the
\* first post has the remote comments r1 and r2, so its list is r1, r2 and
\* then the stored ones; the second post has no remote entry, so its list is
\* the stored ones.
C14_FetchConcatenates ==
    [][\A pg \in Pages :
        LoadCommentsOk(pg) =>
            \E p \in Posts :
                LET shown == commentsDom'[pg].list
                    nRemote == IF p = "p1" THEN 2 ELSE 0
                IN  /\ p = post[pg]
                    /\ shown = CommentsAPI_getComments(p)
                    /\ Len(shown) = nRemote + Len(StoredList(p))
                    /\ p = "p1" => /\ shown[1].id = <<"r", 1>>
                                   /\ shown[2].id = <<"r", 2>>
                    /\ \A i \in DOMAIN StoredList(p) :
                          shown[nRemote + i] = StoredList(p)[i]
                    /\ commentsDom'[pg].countText = <<"n", Len(shown)>>]_vars

\* one tab has posted the only stored comment of the first post, and the
\* other tab, which can have it from a fetch only, lists it after r1 and r2
C14_Witness ==
    \E pg, other \in Pages :
        /\ pg # other
        /\ post[pg] = "p1" /\ post[other] = "p1"
        /\ commentsDom[pg].statusText = "Comment posted successfully!"
        /\ submitCalls[other] = <<>>
        /\ commentsDom[other].statusText = ""
        /\ Len(StoredList("p1")) = 1
        /\ Len(commentsDom[other].list) = 3
        /\ commentsDom[other].list[3] = StoredList("p1")[1]

\* C15: when the remote comment source answers with a non-success status, the
\* fetch fails with an error that carries the status and no comment list is
\* rendered; the likes entry and the comments entry of the store are
\* unchanged; and a retry is offered whose fetch, when it answers ok, renders
\* the comments.
C15_FetchFailure ==
    [][\A pg \in Pages :
        /\ \A status \in FailStatuses :
              LoadCommentsFail(pg, status) =>
                  /\ commentsDom'[pg].view = "error"
                  /\ commentsDom'[pg].loadError = <<"Failed to load comments:", status>>
                  /\ commentsDom'[pg].list = <<>>
                  /\ localStorage'.blog_likes = localStorage.blog_likes
                  /\ localStorage'.blog_comments = localStorage.blog_comments
        /\ (commentsDom[pg].view = "error" /\ RetryLoad(pg)) =>
              /\ commentLoads'[pg] = commentLoads[pg] + 1
              /\ localStorage' = localStorage
        /\ (commentsDom[pg].view = "error" /\ LoadCommentsOk(pg)) =>
              /\ commentsDom'[pg].view = "loaded"
              /\ commentsDom'[pg].list = Remote(post[pg]) \o StoredList(post[pg])]_vars

\* after a failed load "Try Again" was clicked twice; the first retry has
\* rendered the comments, a stored one among them, the second is in flight
C15_Witness ==
    \E pg \in Pages :
        /\ post[pg] = "p1"
        /\ commentsDom[pg].view = "loaded"
        /\ commentLoads[pg] = 1
        /\ Len(commentsDom[pg].list) = 3
        /\ commentsDom[pg].list = Remote("p1") \o StoredList("p1")

\* what getAll has to return for the stored string of a namespace: the
\* mapping that is serialized in it, the empty mapping when the entry is
\* absent or cannot be deserialized
Deserialized(entry) ==
    IF entry[1] = "json" THEN entry[2] ELSE [p \in {} |-> 0]

\* C16: whatever a namespace's entry holds (nothing, a string that cannot be
\* deserialized, or a serialized mapping), getAll of that namespace returns a
\* mapping and no error: the deserialized mapping when one is stored, the
\* empty mapping otherwise.
C16_GetAllTotal ==
    /\ localStorage.blog_likes[1] \in {"null", "corrupt", "json"}
    /\ localStorage.blog_comments[1] \in {"null", "corrupt", "json"}
    /\ LikeStore_getAll = Deserialized(localStorage.blog_likes)
    /\ CommentStore_getAll = Deserialized(localStorage.blog_comments)
    /\ DOMAIN LikeStore_getAll \subseteq Posts
    /\ DOMAIN CommentStore_getAll \subseteq Posts

\* a page has drawn its like button and its comments from a likes entry that
\* cannot be deserialized and a comments entry that holds a mapping
C16_Witness ==
    \E pg \in Pages :
        /\ localStorage.blog_likes = Corrupt
        /\ localStorage.blog_comments[1] = "json"
        /\ post[pg] = "p2"
        /\ commentsDom[pg].view = "loaded"
        /\ commentsDom[pg].statusText = ""
        /\ Len(commentsDom[pg].list) = 1
        /\ commentsDom[pg].list = CommentStore_getAll["p2"]
        /\ Shows(pg, [count |-> 0, liked |-> FALSE])

\* C17: a store write that fails is not propagated.  While setItem throws: a
\* click still shows the target and starts the remote step of the toggle, a
\* failed toggle is still rolled back on the page, and a submission whose
\* remote step succeeds still gets its record, which is appended to the
\* displayed list with the success message; in each case the store keeps the
\* content it had.
C17_WriteFailureSwallowed ==
    [][\A pg \in Pages :
        /\ (quotaExceeded /\ ~likeDom[pg].updating /\ LikeClick(pg)) =>
              /\ localStorage' = localStorage
              /\ Len(likeCalls'[pg]) = Len(likeCalls[pg]) + 1
              /\ likeDom'[pg].updating
              /\ ShowsNext(pg, Target(Persisted(post[pg])))
        /\ (quotaExceeded /\ LikeFailure(pg)) =>
              /\ localStorage' = localStorage
              /\ likeCalls'[pg] = <<>>
              /\ ~likeDom'[pg].updating
              /\ likeDom'[pg].errorVisible
        /\ (quotaExceeded /\ SubmitSuccess(pg)) =>
              /\ localStorage' = localStorage
              /\ submitCalls'[pg] = <<>>
              /\ Len(commentsDom'[pg].list) = Len(commentsDom[pg].list) + 1
              /\ SubSeq(commentsDom'[pg].list, 1, Len(commentsDom[pg].list))
                    = commentsDom[pg].list
              /\ \E i \in DOMAIN submitCalls[pg] :
                    LET record == commentsDom'[pg].list[Len(commentsDom'[pg].list)]
                    IN  /\ record.author = submitCalls[pg][i].author
                        /\ record.body = submitCalls[pg][i].body
              /\ commentsDom'[pg].statusText = "Comment posted successfully!"
              /\ ~commentsDom'[pg].submitDisabled]_vars

\* setItem throws: a like is awaiting its remote step although the store
\* still holds the record from before the click, and a posted comment is on
\* the page although the store holds none
C17_Witness ==
    \E pg \in Pages :
        /\ quotaExceeded
        /\ post[pg] = "p2"
        /\ likeCalls[pg] # <<>>
        /\ likeDom[pg].liked
        /\ Persisted("p2") = [count |-> 0, liked |-> FALSE]
        /\ Len(commentsDom[pg].list) = 1
        /\ StoredList("p2") = <<>>

\* this step belongs to the like button, or to the comment form, of page pg
LikeStep(pg) ==
    LikeClick(pg) \/ LikeSuccess(pg) \/ LikeFailure(pg) \/ HideLikeError(pg)
CommentStep(pg) ==
    PostComment(pg) \/ SubmitSuccess(pg) \/ SubmitFailure(pg) \/ ClearStatus(pg)

\* C18: no step of a like operation (click, confirmation, rollback) changes
\* the comments entry of the store, and no step of a comment operation
\* changes the likes entry, however the two are interleaved.
C18_DisjointNamespaces ==
    [][\A pg \in Pages :
        /\ LikeStep(pg) => localStorage'.blog_comments = localStorage.blog_comments
        /\ CommentStep(pg) => localStorage'.blog_likes = localStorage.blog_likes]_vars

\* a toggle and a submission of the same page are awaiting their remote steps
\* at the same time, after a like was rolled back and a comment was stored
C18_Witness ==
    \E pg \in Pages :
        /\ likeCalls[pg] # <<>>
        /\ submitCalls[pg] # <<>>
        /\ errorTimers[pg]
        /\ localStorage.blog_likes[1] = "json"
        /\ StoredList(post[pg]) # <<>>

\* the number of stored comment records, all posts together
StoredCount == Total([p \in Posts |-> Len(StoredList(p))], Posts)

\* C19: stored comments are append-only.  In every step, of whichever tab,
\* the stored list of each post keeps its records in place and at most gains
\* records at its end, so the list of an earlier state is a prefix of the list
\* of every later state; and with store writes succeeding the number of stored
\* records grows by one in a step in which the remote step of a submission
\* succeeds and in no other step.
C19_AppendOnly ==
    [][/\ \A p \in Posts :
            /\ Len(StoredList(p)') >= Len(StoredList(p))
            /\ SubSeq(StoredList(p)', 1, Len(StoredList(p))) = StoredList(p)
       /\ ~quotaExceeded =>
            StoredCount' = StoredCount +
                (IF \E pg \in Pages : SubmitSuccess(pg) THEN 1 ELSE 0)]_vars

\* two tabs have posted to the same post with their submissions in flight
\* together, and one tab has since reloaded: the stored list holds both records
C19_Witness ==
    \E pg, other \in Pages :
        /\ pg # other
        /\ post[pg] = "p1" /\ post[other] = "p1"
        /\ Len(StoredList("p1")) = 2
        /\ StoredList("p1")[1].timestamp = StoredList("p1")[2].timestamp
        /\ Len(commentsDom[pg].list) = 3
        /\ Len(commentsDom[other].list) = 4

\* a string with no blank at either end
Trimmed(s) == s = <<>> \/ (s[1] # " " /\ s[Len(s)] # " ")

\* C20: every comment record that the comment form has persisted has an
\* author with no blank at either end and at least 2 characters, and a body
\* with no blank at either end and at least 10 characters.
C20_PersistedTrimmed ==
    \A p \in Posts :
        \A i \in DOMAIN StoredList(p) :
            LET record == StoredList(p)[i] IN
            /\ Trimmed(record.author)
            /\ Len(record.author) >= 2
            /\ Trimmed(record.body)
            /\ Len(record.body) >= 10

\* a name of 2 and a comment of 10 characters are stored, and the next
\* comment, typed with blanks around both values, is awaiting its remote step
C20_Witness ==
    \E pg \in Pages :
        /\ post[pg] # NoPost
        /\ Len(StoredList(post[pg])) = 1
        /\ Len(StoredList(post[pg])[1].author) = 2
        /\ Len(StoredList(post[pg])[1].body) = 10
        /\ submitCalls[pg] # <<>>
        /\ Len(commentsDom[pg].authorValue) > Len(submitCalls[pg][1].author)
        /\ Len(commentsDom[pg].bodyValue) > Len(submitCalls[pg][1].body)

InFlight(p) ==
    {pg \in Pages : likeCalls[pg] # <<>> /\ likeCalls[pg][1].postId = p}

\* what every execution from the empty store in which all toggles of p fail
\* and run one after the other keeps true: p has its default record unless
\* the one toggle in flight has read the default record and stored its target
OneAtATime(p) ==
    IF InFlight(p) = {}
    THEN Persisted(p) = DefaultLike
    ELSE \A pg \in InFlight(p) :
            /\ ReadAtStart(likeCalls[pg][1]) = DefaultLike
            /\ Persisted(p) = Target(DefaultLike)

\* C22: the rollback of a failed toggle writes the record the toggle read at
\* its start, whatever the store holds by then.  As long as the toggles of a
\* post run one at a time, failed toggles leave the record of the post as it
\* was; with two toggles of the same post in flight on two pages, the
\* rollback of one overwrites what the other wrote, and the store ends in a
\* state that no execution of the same failing toggles one after the other
\* ends in (C22_Witness).
C22_RollbackOverwrites ==
    /\ \A p \in Posts : OneAtATime(p)
    /\ [][/\ \A pg \in Pages :
                LikeFailure(pg) =>
                    \E i \in DOMAIN likeCalls[pg], p \in Posts :
                        /\ p = likeCalls[pg][i].postId
                        /\ Persisted(p)' = ReadAtStart(likeCalls[pg][i])
          /\ \A p \in Posts :
                (/\ OneAtATime(p)
                 /\ Cardinality(InFlight(p)) <= 1
                 /\ Cardinality(InFlight(p)') <= 1) => OneAtATime(p)']_vars

\* two toggles of the first post were in flight on the two pages at the same
\* time and both have failed: both pages show the error and no toggle is in
\* flight, and the store says the post is liked once
C22_Witness ==
    /\ \A pg \in Pages :
          /\ post[pg] = "p1"
          /\ likeCalls[pg] = <<>>
          /\ likeDom[pg].errorVisible
    /\ Persisted("p1") = [count |-> 1, liked |-> TRUE]

\* a click on page pg that starts a toggle is possible
CanStart(pg) == ENABLED (LikeClick(pg) /\ ClickStarts(pg))

\* C23: the button of a page is in its updating state exactly while a toggle
\* of the page awaits its remote step; the likes entry is written by the
\* click that starts a toggle and by the rollback of a failed remote step
\* and by no other step, so no rollback runs before the remote step has
\* completed; every toggle in flight eventually completes, with success or
\* with failure; and once it has completed a click starts a new toggle.
C23_ToggleCompletes ==
    /\ [](\A pg \in Pages :
            /\ likeDom[pg].updating <=> likeCalls[pg] # <<>>
            /\ (post[pg] # NoPost /\ likeCalls[pg] = <<>>) => CanStart(pg))
    /\ [][localStorage' # localStorage =>
            \E pg \in Pages : ClickStarts(pg) \/ LikeFailure(pg)]_vars
    /\ [][\A pg \in Pages :
            (likeCalls[pg] # <<>> /\ likeCalls'[pg] = <<>>) =>
                LikeSuccess(pg) \/ LikeFailure(pg)]_vars
    /\ \A pg \in Pages :
          likeCalls[pg] # <<>> ~> (likeCalls[pg] = <<>> /\ CanStart(pg))

\* a toggle of the page has failed and was rolled back, and the next toggle
\* of the page is in flight
C23_Witness ==
    \E pg \in Pages :
        /\ errorTimers[pg]
        /\ ~likeDom[pg].errorVisible
        /\ likeCalls[pg] # <<>>
        /\ likeDom[pg].updating

\* the arguments of the call of getSimilarPosts and what it returned
Reference == similarArgs.currentPost
Candidates == similarArgs.allPosts
Returned == similarPosts.posts
Limit == IF similarArgs.count = <<>> THEN 3 ELSE similarArgs.count[1]

\* the places in the collection whose post has another id than the reference
Eligible == {j \in DOMAIN Candidates : Candidates[j].id # Reference.id}

\* C24: no post that getSimilarPosts returns has the id of the reference
\* post, and every post it returns is a post of the candidate collection.
C24_ReturnsOtherCandidates ==
    similarPosts.loaded =>
        \A i \in DOMAIN Returned :
            /\ Returned[i].id # Reference.id
            /\ \E j \in DOMAIN Candidates : Candidates[j] = Returned[i]

\* the reference post is the second of three candidates, and the two others
\* were returned
C24_Witness ==
    /\ similarPosts.loaded
    /\ Reference.id = 2
    /\ Len(Candidates) = 3
    /\ Len(Returned) = 2
    /\ {Returned[i].id : i \in DOMAIN Returned} = {1, 3}

\* the elements of a list
Range(items) == {items[i] : i \in DOMAIN items}

\* C25: getSimilarPosts returns a list of candidates for every call, and the
\* list has exactly min(limit, number of candidates with another id than
\* the reference) posts, the limit being 3 when none is given: fewer than
\* the limit when there are fewer such candidates, and none when there are
\* none.
C25_ReturnsMinLimitEligible ==
    IF similarPosts.loaded
    THEN /\ Len(Returned) = Min(Limit, Cardinality(Eligible))
         /\ Eligible = {} => Returned = <<>>
    ELSE getSimilarPosts(Reference, Candidates, similarArgs.count)
            \in Seq(Range(Candidates))

\* no count was given and the collection is the reference post and two
\* others: the two were returned, not three
C25_Witness ==
    /\ similarPosts.loaded
    /\ similarArgs.count = <<>>
    /\ Len(Candidates) = 3
    /\ Reference.id = 1
    /\ Len(Returned) = 2

\* the score of a candidate against the reference post, and the places of
\* the candidates that were returned (the post at place j has the id j)
ScoreOf(candidate) == score(candidate, Reference)
ReturnedPlaces == {Returned[i].id : i \in DOMAIN Returned}

\* C26: the returned posts are in non-increasing order of score; every
\* returned post scores at least as much as every candidate with another id
\* than the reference that was not returned; and posts of equal score keep
\* the order they have in the collection, among the returned ones and
\* between a returned one and one that was left out.
C26_SortedStable ==
    similarPosts.loaded =>
        /\ \A i, k \in DOMAIN Returned :
              i < k =>
                  /\ ScoreOf(Returned[i]) >= ScoreOf(Returned[k])
                  /\ ScoreOf(Returned[i]) = ScoreOf(Returned[k])
                        => Returned[i].id < Returned[k].id
        /\ \A i \in DOMAIN Returned, j \in Eligible \ ReturnedPlaces :
              /\ ScoreOf(Returned[i]) >= ScoreOf(Candidates[j])
              /\ ScoreOf(Returned[i]) = ScoreOf(Candidates[j])
                    => Returned[i].id < j

\* three candidates of equal score and a count of 2: the first two were
\* returned, in their order, and a fourth place does not exist
C26_Witness ==
    /\ similarPosts.loaded
    /\ similarArgs.count = <<2>>
    /\ Cardinality(Eligible) = 3
    /\ \A j \in Eligible : ScoreOf(Candidates[j]) = ScoreOf(Candidates[1])
    /\ Len(Returned) = 2
    /\ Returned[1].id = 1 /\ Returned[2].id = 2

\* C27: with a reference post of category X and the candidates A (category
\* X, published today), B (category Y, published today) and C (category X,
\* published 30 days ago), in this order, and a limit of 3, given or by
\* default, getSimilarPosts returns A, C, B.  In every call whose candidates
\* are not dated in the future, a returned post of the reference's category
\* precedes every returned post of another category, and of two returned
\* posts of the same category one published later than the other and less
\* than 150 days ago precedes the other.
C27_CategoryThenRecency ==
    similarPosts.loaded =>
        /\ (/\ Reference = [id |-> 4, category |-> "X"]
            /\ Candidates = <<[id |-> 1, category |-> "X", dateISO |-> Today],
                              [id |-> 2, category |-> "Y", dateISO |-> Today],
                              [id |-> 3, category |-> "X", dateISO |-> Today - 30]>>
            /\ Limit = 3)
           => Returned = <<Candidates[1], Candidates[3], Candidates[2]>>
        /\ (\A j \in DOMAIN Candidates : Candidates[j].dateISO <= Today) =>
              \A i, k \in DOMAIN Returned :
                  /\ (/\ Returned[i].category = Reference.category
                      /\ Returned[k].category # Reference.category) => i < k
                  /\ (/\ Returned[i].category = Returned[k].category
                      /\ Returned[i].dateISO > Returned[k].dateISO
                      /\ Today - Returned[i].dateISO < 150) => i < k

\* the call of the example has returned A, C, B
C27_Witness ==
    /\ similarPosts.loaded
    /\ similarArgs.count = <<3>>
    /\ Reference.id = 4
    /\ Len(Returned) = 3
    /\ Returned[1] = [id |-> 1, category |-> "X", dateISO |-> Today]
    /\ Returned[2] = [id |-> 3, category |-> "X", dateISO |-> Today - 30]
    /\ Returned[3] = [id |-> 2, category |-> "Y", dateISO |-> Today]

\* the recency bonus of a candidate, in thirtieths of a point
Bonus(candidate) ==
    ScoreOf(candidate)
    - (IF candidate.category = Reference.category
       THEN CategoryPoints * DaysPerPoint ELSE 0)

\* C28: the recency bonus of every candidate is between 0 and 5 points, the
\* bounds included, whatever its date, a date in the future included, and so
\* no returned post of another category than the reference's precedes a
\* returned post of the reference's category.
C28_BonusBounded ==
    similarPosts.loaded =>
        /\ \A j \in DOMAIN Candidates :
              /\ Bonus(Candidates[j]) >= 0
              /\ Bonus(Candidates[j]) <= 5 * DaysPerPoint
        /\ \A i, k \in DOMAIN Returned :
              (/\ Returned[i].category # Reference.category
               /\ Returned[k].category = Reference.category) => k < i

\* C29: the submit control of a page that shows the comment form is disabled
\* exactly while a submission of the page awaits its remote step; while it
\* is disabled no step starts a submission; after the remote step, success
\* or failure, it is enabled; and a submission that fails validation leaves
\* it enabled.
C29_DisabledWhileInFlight ==
    /\ [](\A pg \in Pages :
            commentsDom[pg].view = "loaded" =>
                (commentsDom[pg].submitDisabled <=> submitCalls[pg] # <<>>))
    /\ [][\A pg \in Pages :
            /\ commentsDom[pg].submitDisabled => ~SubmitStarts(pg)
            /\ (SubmitSuccess(pg) \/ SubmitFailure(pg))
                  => ~commentsDom'[pg].submitDisabled
            /\ (HandlerStep(pg) /\ ~SubmitStarts(pg))
                  => ~commentsDom'[pg].submitDisabled]_vars

\* C30: from a store without likes, in every reachable state, toggles of two
\* pages in flight at the same time included, every record of the likes
\* entry has the count 0 or 1 and is liked exactly when its count is 1.
C30_CountIsZeroOrOne ==
    /\ localStorage.blog_likes[1] \in {"null", "json"}
    /\ localStorage.blog_likes[1] = "json" =>
          \A p \in DOMAIN localStorage.blog_likes[2] :
              LET record == localStorage.blog_likes[2][p] IN
              /\ record.count \in {0, 1}
              /\ record.liked <=> record.count = 1

\* both posts have a stored record, one liked and one not, and the two
\* pages have a toggle of the same post in flight, one a like and one an
\* unlike
C30_Witness ==
    /\ localStorage.blog_likes[1] = "json"
    /\ DOMAIN localStorage.blog_likes[2] = Posts
    /\ \E p, q \in Posts : Persisted(p).liked /\ ~Persisted(q).liked
    /\ \E pg, other \in Pages :
          /\ likeCalls[pg] # <<>> /\ likeCalls[other] # <<>>
          /\ likeCalls[pg][1].postId = likeCalls[other][1].postId
          /\ likeCalls[pg][1].newLiked /\ ~likeCalls[other][1].newLiked

\* no toggle of the like control of page pg is in flight
Idle(pg) == post[pg] # NoPost /\ likeCalls[pg] = <<>>

\* C31 (as stated): whenever no toggle of a like control is in flight, the
\* control displays the liked flag and the count of the persisted record of
\* its post, store writes that failed included.
C31_DisplayEqualsStore ==
    \A pg \in Pages : Idle(pg) => Shows(pg, Persisted(post[pg]))

\* C31: a like control displays the persisted record of its post when the
\* page is rendered, after a toggle whose remote step succeeded if the
\* store held the target the click wrote, and after a toggle whose remote
\* step failed if the rollback could write; while no toggle is in flight,
\* display and record then stay equal.  The remote step does not depend on
\* the store: a toggle that succeeds after its write failed leaves the
\* target on display and the record that was read in the store, and a
\* rollback that cannot write leaves on display the record that was read.
C31_DisplayFollowsWrites ==
    [][\A pg \in Pages :
        /\ \A p \in Posts : Render(pg, p) => ShowsNext(pg, Persisted(p)')
        /\ LikeSuccess(pg) =>
              \E i \in DOMAIN likeCalls[pg], p \in Posts :
                  LET read == ReadAtStart(likeCalls[pg][i]) IN
                  /\ p = likeCalls[pg][i].postId
                  /\ ShowsNext(pg, Target(read))
                  /\ Persisted(p)' = Persisted(p)
                  /\ Persisted(p) = Target(read) <=> ShowsNext(pg, Persisted(p)')
        /\ LikeFailure(pg) =>
              \E i \in DOMAIN likeCalls[pg], p \in Posts :
                  LET read == ReadAtStart(likeCalls[pg][i]) IN
                  /\ p = likeCalls[pg][i].postId
                  /\ ShowsNext(pg, read)
                  /\ ~quotaExceeded => ShowsNext(pg, Persisted(p)')
        /\ (/\ Idle(pg) /\ Idle(pg)'
            /\ post'[pg] = post[pg]
            /\ Shows(pg, Persisted(post[pg])))
              => ShowsNext(pg, Persisted(post[pg])')]_vars

\* a like was confirmed and stored, and the unlike after it has failed and
\* was rolled back: the control shows the error and the stored record
C31_Witness ==
    \E pg \in Pages :
        /\ Idle(pg)
        /\ ~quotaExceeded
        /\ likeDom[pg].errorVisible
        /\ Persisted(post[pg]) = [count |-> 1, liked |-> TRUE]
        /\ Shows(pg, Persisted(post[pg]))

\* C32: no step of a toggle on a page (the click with its optimistic write,
\* the confirmation, the rollback) changes the persisted like record of a
\* post other than the page's, nor whether the likes entry has a record for
\* it, also while a toggle of that other post is in flight on another page.
C32_OtherPostsUntouched ==
    [][\A pg \in Pages :
        (LikeClick(pg) \/ LikeSuccess(pg) \/ LikeFailure(pg)) =>
            \A q \in Posts \ {post[pg]} :
                /\ Persisted(q)' = Persisted(q)
                /\ (q \in DOMAIN LikeStore_getAll)'
                      <=> q \in DOMAIN LikeStore_getAll]_vars

\* the two pages are on different posts and each has a toggle in flight, an
\* unlike on the one and a like on the other, after a rollback on the first;
\* the store holds the target of each
C32_Witness ==
    \E pg, other \in Pages :
        /\ post[pg] # post[other]
        /\ likeCalls[pg] # <<>> /\ likeCalls[other] # <<>>
        /\ errorTimers[pg]
        /\ likeCalls[pg][1].wasLiked /\ ~likeCalls[other][1].wasLiked
        /\ Persisted(post[pg]) = Target(ReadAtStart(likeCalls[pg][1]))
        /\ Persisted(post[other]) = Target(ReadAtStart(likeCalls[other][1]))

====
